---- MODULE Spec2Model ----
(***************************************************************************)
(* Model of gchemol_core's Molecule (src/src/molecule.rs): a graph of      *)
(* atoms and bonds addressed by caller-chosen serial numbers through a     *)
(* bidirectional serial <-> node-handle map.                               *)
(*                                                                         *)
(* The graph store (NxGraph) and the bimap (BiHashMap) are libraries the   *)
(* crate consumes; they are modelled by their interface.  The store may    *)
(* hand out any handle that is not live, in particular the handle of a     *)
(* node removed earlier.                                                   *)
(***************************************************************************)
EXTENDS Integers, Sequences, FiniteSets, TLC

\* ---------------------------------------------------------------- bounds
MaxSerial == 2
NumHandles == 2

Serials == 1..MaxSerial
Handles == 0..(NumHandles - 1)
Symbols == {"C", "H"}
Positions == {0}
BondKinds == {"single", "double"}

\* An atom value: element symbol and position (one coordinate stands for the
\* three of Point3).
Atom == [symbol : Symbols, position : Positions]
Bond == BondKinds

\* ------------------------------------------------------- results of calls
\* Option<T>, the unit value and a panic (expect/unwrap/index failure).
None == <<"none">>
Some(x) == <<"some", x>>
Unit == <<"unit">>
Panic == <<"panic">>

\* What an operation leaves behind: the molecule and what it returned.
Outcome(m, r) == [mol |-> m, ret |-> r]

\* --------------------------------------------------------- atom and bond
AtomSetPosition(atom, p) == [atom EXCEPT !.position = p]
AtomSetSymbol(atom, sym) == [atom EXCEPT !.symbol = sym]

\* update_position: the position is set unless the coordinate is frozen.
AtomUpdatePosition(atom, p) ==
    IF atom.freezing THEN atom ELSE [atom EXCEPT !.position = p]

\* ------------------------------------------------------------ graph store
\* nodes: live handle -> atom; edges: unordered pair of handles -> bond;
\* free: the handles of removed nodes, which the store may mint again.
EmptyFcn == [x \in {} |-> x]

EmptyGraph == [nodes |-> EmptyFcn, edges |-> EmptyFcn, free |-> {}]

Restrict(f, S) == [x \in S |-> f[x]]

NodeIndices(g) == DOMAIN g.nodes

number_of_nodes(g) == Cardinality(DOMAIN g.nodes)

number_of_edges(g) == Cardinality(DOMAIN g.edges)

\* add_node with the store minting handle n (n is not live).
graph_add_node(g, n, atom) ==
    [g EXCEPT !.nodes = [h \in DOMAIN g.nodes \cup {n} |->
                            IF h = n THEN atom ELSE g.nodes[h]],
              !.free = g.free \ {n}]

\* Mutant of remove_node: the store keeps its nodes contiguous, so the node
\* with the highest handle moves, with its edges, into the removed slot.
graph_remove_node_swap(g, n) ==
    LET last == CHOOSE h \in DOMAIN g.nodes : \A k \in DOMAIN g.nodes : k <= h
        move(h) == IF h = last THEN n ELSE h
        kept == {e \in DOMAIN g.edges : n \notin e}
    IN IF n \notin DOMAIN g.nodes
       THEN g
       ELSE [nodes |-> [h \in DOMAIN g.nodes \ {last} |-> g.nodes[move(h)]],
             edges |-> [e \in {{move(h) : h \in k} : k \in kept} |->
                          g.edges[CHOOSE k \in kept : {move(h) : h \in k} = e]],
             free |-> g.free \cup {last}]

\* remove_node drops the node and every edge incident to it.
graph_remove_node(g, n) ==
    [nodes |-> Restrict(g.nodes, DOMAIN g.nodes \ {n}),
     edges |-> Restrict(g.edges, {e \in DOMAIN g.edges : n \notin e}),
     free |-> g.free \cup {n}]

\* add_edge adds the edge u--v, or replaces its value (no parallel edge).
graph_add_edge(g, u, v, bond) ==
    [g EXCEPT !.edges = [e \in DOMAIN g.edges \cup {{u, v}} |->
                            IF e = {u, v} THEN bond ELSE g.edges[e]]]

graph_has_edge(g, u, v) == {u, v} \in DOMAIN g.edges

graph_remove_edge(g, u, v) ==
    [g EXCEPT !.edges = Restrict(g.edges, DOMAIN g.edges \ {{u, v}})]

\* ------------------------------------------------------------------ bimap
\* The map is a set of <<serial, handle>> pairs.
get_by_left(mapping, sn) ==
    IF \E p \in mapping : p[1] = sn
    THEN Some((CHOOSE p \in mapping : p[1] = sn)[2])
    ELSE None

get_by_right(mapping, n) ==
    IF \E p \in mapping : p[2] = n
    THEN Some((CHOOSE p \in mapping : p[2] = n)[1])
    ELSE None

\* insert_no_overwrite is refused when either side is already in the map.
can_insert_no_overwrite(mapping, sn, n) ==
    /\ get_by_left(mapping, sn) = None
    /\ get_by_right(mapping, n) = None

remove_by_left(mapping, sn) == {p \in mapping : p[1] # sn}

left_values(mapping) == {p[1] : p \in mapping}

right_values(mapping) == {p[2] : p \in mapping}

\* --------------------------------------------------------------- Molecule
\* struct Molecule: the graph and the serial <-> handle mapping.
DefaultMolecule == [graph |-> EmptyGraph, mapping |-> {}]

get_node_index(m, sn) == get_by_left(m.mapping, sn)

Present(m, sn) == get_node_index(m, sn) # None

\* Mutant of node_index: an absent serial resolves to the default handle
\* instead of failing.
node_index_or_default(m, sn) ==
    LET idx == get_node_index(m, sn) IN
    IF idx = None THEN Some(0) ELSE idx

\* node_index: Some(handle), or the panic of expect("invalid atom sn").
node_index(m, sn) ==
    LET idx == get_node_index(m, sn) IN
    IF idx = None THEN Panic ELSE idx

\* atom_sn: Some(serial), or the panic of expect("invalid NodeIndex").
atom_sn(m, n) ==
    LET sn == get_by_right(m.mapping, n) IN
    IF sn = None THEN Panic ELSE sn

\* Mutant of add_atom: a present serial is replaced by removing its node and
\* adding a new one in the freed slot, which drops the bonds of the atom.
add_atom_remove_then_add(m, a, atom, n) ==
    LET idx == get_by_left(m.mapping, a) IN
    IF idx # None
    THEN Outcome([m EXCEPT !.graph =
                     graph_add_node(graph_remove_node(m.graph, idx[2]), idx[2], atom)],
                 Unit)
    ELSE Outcome([graph |-> graph_add_node(m.graph, n, atom),
                  mapping |-> m.mapping \cup {<<a, n>>}], Unit)

\* add_atom(a, atom); n is the handle the store mints if a node is added.
add_atom(m, a, atom, n) ==
    LET idx == get_by_left(m.mapping, a) IN
    IF idx # None
    THEN IF idx[2] \in NodeIndices(m.graph)
         THEN Outcome([m EXCEPT !.graph.nodes[idx[2]] = atom], Unit)
         ELSE Outcome(m, Panic)
    ELSE LET g == graph_add_node(m.graph, n, atom) IN
         IF can_insert_no_overwrite(m.mapping, a, n)
         THEN Outcome([graph |-> g, mapping |-> m.mapping \cup {<<a, n>>}], Unit)
         ELSE Outcome([m EXCEPT !.graph = g], Panic)

\* Mutant of remove_atom: the node is removed but its mapping entry stays.
remove_atom_stale_entry(m, a) ==
    LET idx == get_by_left(m.mapping, a) IN
    IF idx = None
    THEN Outcome(m, None)
    ELSE IF idx[2] \in NodeIndices(m.graph)
         THEN Outcome([m EXCEPT !.graph = graph_remove_node(m.graph, idx[2])],
                      Some(m.graph.nodes[idx[2]]))
         ELSE Outcome(m, None)

\* Mutant of remove_atom: the mapping entry is removed but the node stays.
remove_atom_keep_node(m, a) ==
    LET idx == get_by_left(m.mapping, a) IN
    IF idx = None
    THEN Outcome(m, None)
    ELSE Outcome([m EXCEPT !.mapping = remove_by_left(m.mapping, a)],
                 IF idx[2] \in NodeIndices(m.graph)
                 THEN Some(m.graph.nodes[idx[2]]) ELSE None)

\* remove_atom(a): the mapping entry goes first, then the node.
remove_atom(m, a) ==
    LET idx == get_by_left(m.mapping, a) IN
    IF idx = None
    THEN Outcome(m, None)
    ELSE LET n == idx[2]
             mapping1 == remove_by_left(m.mapping, a)
         IN IF n \in NodeIndices(m.graph)
            THEN Outcome([graph |-> graph_remove_node(m.graph, n),
                          mapping |-> mapping1], Some(m.graph.nodes[n]))
            ELSE Outcome([m EXCEPT !.mapping = mapping1], None)

natoms(m) == number_of_nodes(m.graph)

nbonds(m) == number_of_edges(m.graph)

\* Mutant of add_bond: the second endpoint is resolved from a instead of b.
add_bond_same_endpoint(m, a, b, bond) ==
    LET na == node_index(m, a)
        nb == node_index(m, a)
    IN IF na = Panic \/ node_index(m, b) = Panic
       THEN Outcome(m, Panic)
       ELSE Outcome([m EXCEPT !.graph =
                        graph_add_edge(m.graph, na[2], nb[2], bond)], Unit)

\* add_bond(a, b, bond): both serials are resolved with node_index.
add_bond(m, a, b, bond) ==
    LET na == node_index(m, a)
        nb == node_index(m, b)
    IN IF na = Panic \/ nb = Panic
       THEN Outcome(m, Panic)
       ELSE IF {na[2], nb[2]} \subseteq NodeIndices(m.graph)
            THEN Outcome([m EXCEPT !.graph =
                             graph_add_edge(m.graph, na[2], nb[2], bond)], Unit)
            ELSE Outcome(m, Panic)

\* Mutant of remove_bond: the bond is returned but the edge is not removed.
remove_bond_keep_edge(m, a, b) ==
    LET na == node_index(m, a)
        nb == node_index(m, b)
    IN IF na = Panic \/ nb = Panic
       THEN Outcome(m, Panic)
       ELSE IF graph_has_edge(m.graph, na[2], nb[2])
            THEN Outcome(m, Some(m.graph.edges[{na[2], nb[2]}]))
            ELSE Outcome(m, None)

\* remove_bond(a, b): Some(bond) when the edge existed, None otherwise.
remove_bond(m, a, b) ==
    LET na == node_index(m, a)
        nb == node_index(m, b)
    IN IF na = Panic \/ nb = Panic
       THEN Outcome(m, Panic)
       ELSE IF graph_has_edge(m.graph, na[2], nb[2])
            THEN Outcome([m EXCEPT !.graph =
                             graph_remove_edge(m.graph, na[2], nb[2])],
                         Some(m.graph.edges[{na[2], nb[2]}]))
            ELSE Outcome(m, None)

\* Mutant of clear: the graph is emptied but the mapping is not.
clear_graph_only(m) == Outcome([m EXCEPT !.graph = EmptyGraph], Unit)

\* clear(): the mapping and the graph are both emptied.
clear(m) == Outcome([graph |-> EmptyGraph, mapping |-> {}], Unit)

\* The ascending sequence of the members of a set of numbers (sorted()).
RECURSIVE SortedSeq(_)
SortedSeq(S) ==
    IF S = {} THEN <<>>
    ELSE LET x == CHOOSE y \in S : \A z \in S : y <= z
         IN <<x>> \o SortedSeq(S \ {x})

\* The descending sequence of the members of a set of numbers.
RECURSIVE ReverseSortedSeq(_)
ReverseSortedSeq(S) ==
    IF S = {} THEN <<>>
    ELSE LET x == CHOOSE y \in S : \A z \in S : y >= z
         IN <<x>> \o ReverseSortedSeq(S \ {x})

\* Mutant of serial_numbers: the left values are not sorted ascending.
serial_numbers_unsorted(m) == ReverseSortedSeq(left_values(m.mapping))

serial_numbers(m) == SortedSeq(left_values(m.mapping))

\* get_atom(sn): None when sn is not mapped; indexing a dead handle panics.
get_atom(m, sn) ==
    LET idx == get_node_index(m, sn) IN
    IF idx = None THEN None
    ELSE IF idx[2] \in NodeIndices(m.graph)
         THEN Some(m.graph.nodes[idx[2]])
         ELSE Panic

\* atoms(): (sn, atom) for each sn of serial_numbers(), in that order; the
\* sequence yielded, or the panic of node_index or of indexing the graph.
atoms(m) ==
    LET sns == serial_numbers(m)
        ns == [i \in 1..Len(sns) |-> node_index(m, sns[i])]
    IN IF \E i \in 1..Len(sns) :
             ns[i] = Panic \/ ns[i][2] \notin NodeIndices(m.graph)
       THEN Panic
       ELSE Some([i \in 1..Len(sns) |-> <<sns[i], m.graph.nodes[ns[i][2]]>>])

\* bonds(): (sn1, sn2, bond) for each edge of the graph, or the panic of
\* atom_sn.  What is yielded is given per edge, its endpoints by ascending
\* handle: the order of the edges and of the two endpoints is the store's.
bonds(m) ==
    LET ends == [e \in DOMAIN m.graph.edges |->
                    LET u == CHOOSE x \in e : \A y \in e : x <= y
                        v == CHOOSE x \in e : \A y \in e : y <= x
                    IN <<atom_sn(m, u), atom_sn(m, v)>>]
    IN IF \E e \in DOMAIN ends : ends[e][1] = Panic \/ ends[e][2] = Panic
       THEN Panic
       ELSE Some([e \in DOMAIN ends |->
                     <<ends[e][1][2], ends[e][2][2], m.graph.edges[e]>>])

\* get_bond(sn1, sn2): None unless both serials are mapped; then the edge
\* is indexed, which panics when there is no edge between the two nodes.
get_bond(m, sn1, sn2) ==
    LET n1 == get_node_index(m, sn1)
        n2 == get_node_index(m, sn2)
    IN IF n1 # None /\ n2 # None
       THEN IF graph_has_edge(m.graph, n1[2], n2[2])
            THEN Some(m.graph.edges[{n1[2], n2[2]}])
            ELSE Panic
       ELSE None

get_bond_mut(m, sn1, sn2) ==
    LET n1 == get_node_index(m, sn1)
        n2 == get_node_index(m, sn2)
    IN IF n1 # None /\ n2 # None
       THEN IF graph_has_edge(m.graph, n1[2], n2[2])
            THEN Some(m.graph.edges[{n1[2], n2[2]}])
            ELSE Panic
       ELSE None

\* set_position(sn, p): get_atom_mut(sn).expect(..), then the atom is set.
set_position(m, sn, p) ==
    LET idx == get_node_index(m, sn) IN
    IF idx = None \/ (idx # None /\ idx[2] \notin NodeIndices(m.graph))
    THEN Outcome(m, Panic)
    ELSE Outcome([m EXCEPT !.graph.nodes[idx[2]] =
                     AtomSetPosition(m.graph.nodes[idx[2]], p)], Unit)

\* set_symbol(sn, sym): get_atom_mut(sn).expect(..), then the atom is set.
set_symbol(m, sn, sym) ==
    LET idx == get_node_index(m, sn) IN
    IF idx = None \/ (idx # None /\ idx[2] \notin NodeIndices(m.graph))
    THEN Outcome(m, Panic)
    ELSE Outcome([m EXCEPT !.graph.nodes[idx[2]] =
                     AtomSetSymbol(m.graph.nodes[idx[2]], sym)], Unit)

\* ------------------------------------------ the statements of the methods
\* Mutant of remove_atom_sn: the node is removed from the graph at this
\* point, and the mapping entry is left for later.
remove_atom_sn_node_first(m, sn) ==
    LET idx == get_by_left(m.mapping, sn) IN
    IF idx = None THEN Outcome(m, None)
    ELSE Outcome([m EXCEPT !.graph = graph_remove_node(m.graph, idx[2])], idx)

\* remove_atom_sn(sn): the entry of sn leaves the mapping; its handle, if
\* there was one, is returned.
remove_atom_sn(m, sn) ==
    Outcome([m EXCEPT !.mapping = remove_by_left(m.mapping, sn)],
            get_by_left(m.mapping, sn))

\* remove_atom, second statement: self.graph.remove_node(n).
remove_atom_node(m, n) ==
    Outcome([m EXCEPT !.graph = graph_remove_node(m.graph, n)],
            IF n \in NodeIndices(m.graph) THEN Some(m.graph.nodes[n]) ELSE None)

\* add_atom on a present serial, its one statement: self.graph[n] = atom.
add_atom_replace(m, n, atom) ==
    IF n \in NodeIndices(m.graph)
    THEN Outcome([m EXCEPT !.graph.nodes[n] = atom], Unit)
    ELSE Outcome(m, Panic)

\* add_atom on an absent serial, first statement: self.graph.add_node(atom),
\* the store minting handle n.
add_atom_node(m, atom, n) ==
    Outcome([m EXCEPT !.graph = graph_add_node(m.graph, n, atom)], Some(n))

\* add_atom on an absent serial, second statement:
\* self.mapping.insert_no_overwrite(a, n).expect("add atom failure").
add_atom_insert(m, a, n) ==
    IF can_insert_no_overwrite(m.mapping, a, n)
    THEN Outcome([m EXCEPT !.mapping = m.mapping \cup {<<a, n>>}], Unit)
    ELSE Outcome(m, Panic)

\* clear, first statement: self.mapping.clear().
clear_mapping(m) == Outcome([m EXCEPT !.mapping = {}], Unit)

\* clear, second statement: self.graph.clear().
clear_graph(m) == Outcome([m EXCEPT !.graph = EmptyGraph], Unit)

\* ------------------------------------------------------------ bulk setters
\* get_atom_mut(sn): as get_atom, for writing.
get_atom_mut(m, sn) == get_atom(m, sn)

\* The serials of the molecule, by ascending handle of their nodes.
serials_by_handle(m) ==
    LET hs == SortedSeq(right_values(m.mapping))
    IN [i \in 1..Len(hs) |-> get_by_right(m.mapping, hs[i])[2]]

\* The loop of set_positions: serial_numbers() zipped with the values; the
\* zip ends with the shorter of the two.
RECURSIVE set_positions_loop(_, _, _, _)
set_positions_loop(m, sns, vals, i) ==
    IF i > Len(sns) \/ i > Len(vals) THEN Outcome(m, Unit)
    ELSE LET atom == get_atom_mut(m, sns[i]) IN
         IF atom = None \/ atom = Panic
         THEN Outcome(m, Panic)
         ELSE set_positions_loop(
                  [m EXCEPT !.graph.nodes[get_node_index(m, sns[i])[2]] =
                      AtomSetPosition(atom[2], vals[i])],
                  sns, vals, i + 1)

\* Mutant of set_positions: the values are paired with the atoms in the order
\* of their handles.
set_positions_by_handle(m, positions) ==
    set_positions_loop(m, serials_by_handle(m), positions, 1)

\* set_positions(positions)
set_positions(m, positions) ==
    set_positions_loop(m, serial_numbers(m), positions, 1)

RECURSIVE update_positions_loop(_, _, _, _)
update_positions_loop(m, sns, vals, i) ==
    IF i > Len(sns) \/ i > Len(vals) THEN Outcome(m, Unit)
    ELSE LET atom == get_atom_mut(m, sns[i]) IN
         IF atom = None \/ atom = Panic
         THEN Outcome(m, Panic)
         ELSE update_positions_loop(
                  [m EXCEPT !.graph.nodes[get_node_index(m, sns[i])[2]] =
                      AtomUpdatePosition(atom[2], vals[i])],
                  sns, vals, i + 1)

\* update_positions(positions)
update_positions(m, positions) ==
    update_positions_loop(m, serial_numbers(m), positions, 1)

RECURSIVE set_symbols_loop(_, _, _, _)
set_symbols_loop(m, sns, vals, i) ==
    IF i > Len(sns) \/ i > Len(vals) THEN Outcome(m, Unit)
    ELSE LET atom == get_atom_mut(m, sns[i]) IN
         IF atom = None \/ atom = Panic
         THEN Outcome(m, Panic)
         ELSE set_symbols_loop(
                  [m EXCEPT !.graph.nodes[get_node_index(m, sns[i])[2]] =
                      AtomSetSymbol(atom[2], vals[i])],
                  sns, vals, i + 1)

\* set_symbols(symbols)
set_symbols(m, syms) ==
    set_symbols_loop(m, serial_numbers(m), syms, 1)

\* add_atoms_from(atoms): add_atom for each (serial, atom) in turn; the set
\* of molecules that can result, over the handles the store may mint.
RECURSIVE add_atoms_from_loop(_, _, _)
add_atoms_from_loop(ms, pairs, i) ==
    IF i > Len(pairs) THEN ms
    ELSE add_atoms_from_loop(
             UNION {{add_atom(m, pairs[i][1], pairs[i][2], n).mol :
                        n \in IF Present(m, pairs[i][1])
                              THEN {0}
                              ELSE Handles \ NodeIndices(m.graph)} : m \in ms},
             pairs, i + 1)

add_atoms_from(m, pairs) ==
    {Outcome(m1, Unit) : m1 \in add_atoms_from_loop({m}, pairs, 1)}

\* The loop of add_bonds_from: add_bond for each (u, v, bond) in turn; a
\* panic of add_bond ends the loop and the program.
RECURSIVE add_bonds_from_loop(_, _, _)
add_bonds_from_loop(m, triples, i) ==
    IF i > Len(triples) THEN Outcome(m, Unit)
    ELSE LET out == add_bond(m, triples[i][1], triples[i][2], triples[i][3])
         IN IF out.ret = Panic
            THEN out
            ELSE add_bonds_from_loop(out.mol, triples, i + 1)

\* Mutant of add_bonds_from: nothing is added when an entry fails.
add_bonds_from_all_or_nothing(m, triples) ==
    LET out == add_bonds_from_loop(m, triples, 1)
    IN IF out.ret = Panic THEN Outcome(m, Panic) ELSE out

\* add_bonds_from(bonds)
add_bonds_from(m, triples) == add_bonds_from_loop(m, triples, 1)

\* The loop of set_positions_from: set_position for each (serial, position).
RECURSIVE set_positions_from_loop(_, _, _)
set_positions_from_loop(m, pairs, i) ==
    IF i > Len(pairs) THEN Outcome(m, Unit)
    ELSE LET out == set_position(m, pairs[i][1], pairs[i][2])
         IN IF out.ret = Panic
            THEN out
            ELSE set_positions_from_loop(out.mol, pairs, i + 1)

\* set_positions_from(selected_positions)
set_positions_from(m, pairs) == set_positions_from_loop(m, pairs, 1)

\* ------------------------------------------------------------------ title
\* A string is the sequence of its characters.
Chars == {" ", "\n", "\r", "a", "b"}

\* char::is_whitespace, among Chars.
WhiteSpace == {" ", "\n", "\r"}

Untitled == <<"u", "n", "t", "i", "t", "l", "e", "d">>

\* str::lines(): the string is cut after each "\n"; each piece loses its
\* final "\n" and then a final "\r"; the empty string has no lines, and a
\* string that ends in "\n" has no empty line after it.
RECURSIVE lines(_)
lines(s) ==
    IF s = <<>> THEN <<>>
    ELSE IF \E i \in 1..Len(s) : s[i] = "\n"
         THEN LET i == CHOOSE k \in 1..Len(s) :
                           s[k] = "\n" /\ \A j \in 1..(k - 1) : s[j] # "\n"
                  line == SubSeq(s, 1, i - 1)
              IN <<IF line # <<>> /\ line[Len(line)] = "\r"
                   THEN SubSeq(line, 1, Len(line) - 1)
                   ELSE line>>
                 \o lines(SubSeq(s, i + 1, Len(s)))
         ELSE <<s>>

RECURSIVE trim_start(_)
trim_start(s) ==
    IF s # <<>> /\ s[1] \in WhiteSpace THEN trim_start(Tail(s)) ELSE s

RECURSIVE trim_end(_)
trim_end(s) ==
    IF s # <<>> /\ s[Len(s)] \in WhiteSpace
    THEN trim_end(SubSeq(s, 1, Len(s) - 1)) ELSE s

\* str::trim(): leading and trailing whitespace removed.
trim(s) == trim_end(trim_start(s))

\* title(): "untitled" when the name has no lines, else its first line,
\* trimmed.
title(nm) ==
    LET tlines == lines(nm) IN
    IF tlines = <<>> THEN Untitled ELSE trim(tlines[1])

\* set_title(title): the name becomes the title given.
set_title(nm, t) == t

\* ---------------------------------------------------------------- formula
\* get_reduced_symbols: the symbols are counted one by one into a map from
\* symbol to count.
RECURSIVE count_symbols(_, _, _)
count_symbols(counts, syms, i) ==
    IF i > Len(syms) THEN counts
    ELSE LET x == syms[i]
             c == IF x \in DOMAIN counts THEN counts[x] ELSE 0
         IN count_symbols([k \in DOMAIN counts \cup {x} |->
                              IF k = x THEN c + 1 ELSE counts[k]],
                          syms, i + 1)

get_reduced_symbols(syms) == count_symbols(EmptyFcn, syms, 1)

\* usize::to_string: the decimal digits, the most significant first.
Digits == <<"0", "1", "2", "3", "4", "5", "6", "7", "8", "9">>

RECURSIVE to_string(_)
to_string(v) ==
    IF v < 10 THEN Digits[v + 1]
    ELSE to_string(v \div 10) \o Digits[(v % 10) + 1]

\* Mutant of reduced: the count is written also when it is 1.
reduced_with_count_one(k, v) == k \o to_string(v)

\* The fragment of symbol k counted v times: format!("{}{}", k, s), where s
\* is the count when it is above 1 and empty otherwise.
reduced(k, v) == k \o (IF v > 1 THEN to_string(v) ELSE "")

\* Mutant of formula_step: "H" is pushed like any other symbol.
formula_step_h_pushed(acc, k, v) ==
    IF k = "C"
    THEN [acc EXCEPT !.syms = <<reduced(k, v)>> \o acc.syms]
    ELSE [acc EXCEPT !.syms = Append(acc.syms, reduced(k, v))]

\* One round of the loop over the counts: the fragment of "C" is inserted
\* at the front of syms, that of "H" is kept in to_append, any other is
\* pushed at the end of syms.
formula_step(acc, k, v) ==
    IF k = "C"
    THEN [acc EXCEPT !.syms = <<reduced(k, v)>> \o acc.syms]
    ELSE IF k = "H"
         THEN [acc EXCEPT !.to_append = reduced(k, v)]
         ELSE [acc EXCEPT !.syms = Append(acc.syms, reduced(k, v))]

\* The loop over the map, which yields its keys in the order `order`.
RECURSIVE formula_loop(_, _, _, _)
formula_loop(acc, counts, order, i) ==
    IF i > Len(order) THEN acc
    ELSE formula_loop(formula_step(acc, order[i], counts[order[i]]),
                      counts, order, i + 1)

\* [String]::join(""): the strings one after another.
RECURSIVE join(_)
join(ss) == IF ss = <<>> THEN "" ELSE Head(ss) \o join(Tail(ss))

\* The orders in which a map may yield its keys.
KeyOrders(counts) ==
    {o \in [1..Cardinality(DOMAIN counts) -> DOMAIN counts] :
        \A i, j \in DOMAIN o : o[i] = o[j] => i = j}

\* get_reduced_formula(symbols), the map being iterated in the order `order`.
get_reduced_formula(syms, order) ==
    LET counts == get_reduced_symbols(syms)
        acc == formula_loop([syms |-> <<>>, to_append |-> ""], counts, order, 1)
    IN join(Append(acc.syms, acc.to_append))

\* ----------------------------------------------------------- constructors
\* Molecule::new(name): an empty molecule.
new == DefaultMolecule

\* from_atoms(atoms): add_atom(i + 1, atoms[i]) for each atom in turn; the
\* set of molecules that can result, over the handles the store may mint.
RECURSIVE from_atoms_loop(_, _, _)
from_atoms_loop(ms, as, i) ==
    IF i > Len(as) THEN ms
    ELSE from_atoms_loop(
             UNION {{add_atom(m, i, as[i], n).mol :
                        n \in Handles \ NodeIndices(m.graph)} : m \in ms},
             as, i + 1)

from_atoms(as) == from_atoms_loop({DefaultMolecule}, as, 1)

\* Mutant of from_graph: the serial numbers start at 0.
from_graph_zero_based(g, nodes) ==
    [graph |-> g, mapping |-> {<<sn - 1, nodes[sn]>> : sn \in 1..Len(nodes)}]

\* from_graph(graph): serial numbers 1, 2, .. are given to the nodes in the
\* order `nodes` in which the store enumerates them.
from_graph(g, nodes) ==
    [graph |-> g, mapping |-> {<<sn, nodes[sn]>> : sn \in 1..Len(nodes)}]

\* ------------------------------------------------------------------ state
\* mol is the program's state.  stored, removed, prev, lastOp and ret are
\* history variables: stored and removed follow the calls made, and prev,
\* lastOp and ret record one call of the run, the observed call.  Which call is observed is free;
\* the run is followed further from the state in which it was not observed.
VARIABLES
    mol,      \* the Molecule
    stored,   \* serial -> the atom value last stored under it, if any
    removed,  \* the serials that were removed and not added again
    prev,     \* the Molecule before the observed call
    lastOp,   \* the observed call and its arguments
    ret,      \* what the observed call returned (Panic ends the program)
    name,     \* Molecule::name, the stored title
    symbols,  \* the symbol sequence given to the formula reducer
    formula,  \* what the formula reducer returned for it, once called
    pc        \* the statement a call in progress has reached, and its local n

vars == <<mol, stored, removed, prev, lastOp, ret, name, symbols, formula, pc>>

\* No call is in progress.
Idle == [at |-> "idle", n |-> 0]

\* The variables of the title and of the formula reducer, in the
\* specifications that are not about them: an empty name, nothing reduced.
TitleAndFormulaUnused ==
    /\ name = <<>>
    /\ symbols = <<>>
    /\ formula = None

Op(call, a, b, val) == [op |-> call, a |-> a, b |-> b, val |-> val]

NoOp == Op("none", 0, 0, Unit)

Observed == lastOp.op # "none"

NothingStored == [sn \in Serials |-> None]

\* The raw graphs from_graph is given: any nodes and edges of the store, no
\* more nodes than there are serial numbers in the model.
RawGraphs ==
    UNION {
        UNION {
            {[nodes |-> f, edges |-> e, free |-> fr] :
                f \in [N -> Atom], e \in [E -> Bond], fr \in SUBSET (Handles \ N)} :
            E \in SUBSET {e \in SUBSET N : Cardinality(e) = 2}} :
        N \in {S \in SUBSET Handles : Cardinality(S) <= MaxSerial}}

\* The orders in which the store may enumerate the nodes of g.
NodeOrders(g) ==
    {o \in [1..number_of_nodes(g) -> NodeIndices(g)] :
        \A i, j \in DOMAIN o : o[i] = o[j] => i = j}

AtomSeqs == UNION {[1..k -> Atom] : k \in 0..MaxSerial}

InitNew ==
    /\ mol = new
    /\ stored = NothingStored
    /\ lastOp = NoOp \/ lastOp = Op("new", 0, 0, Unit)

InitFromAtoms ==
    \E as \in AtomSeqs :
        /\ Len(as) <= NumHandles
        /\ mol \in from_atoms(as)
        /\ stored = [sn \in Serials |-> IF sn <= Len(as) THEN Some(as[sn]) ELSE None]
        /\ lastOp = NoOp \/ lastOp = Op("from_atoms", 0, 0, as)

InitFromGraph ==
    \E g \in RawGraphs :
        \E nodes \in NodeOrders(g) :
            /\ mol = from_graph(g, nodes)
            /\ stored = [sn \in Serials |->
                            IF sn <= Len(nodes) THEN Some(g.nodes[nodes[sn]]) ELSE None]
            /\ lastOp = NoOp \/ lastOp = Op("from_graph", 0, 0, nodes)

Init ==
    /\ InitNew \/ InitFromAtoms \/ InitFromGraph
    /\ removed = {}
    /\ prev = DefaultMolecule
    /\ ret = Unit
    /\ TitleAndFormulaUnused
    /\ pc = Idle

\* One call: the molecule becomes out.mol and the call returned out.ret.  A
\* panic ends the program: nothing is called after it.
Call(op, out) ==
    /\ ~Observed
    /\ mol' = out.mol
    /\ \/ /\ prev' = mol
          /\ lastOp' = op
          /\ ret' = out.ret
       \/ /\ out.ret # Panic
          /\ UNCHANGED <<prev, lastOp, ret>>
    /\ UNCHANGED <<name, symbols, formula, pc>>

AddAtom ==
    \E a \in Serials, atom \in Atom, n \in Handles :
        /\ IF Present(mol, a)
           THEN n = 0
           ELSE n \notin NodeIndices(mol.graph)
        /\ LET out == add_atom(mol, a, atom, n) IN
              /\ Call(Op("add_atom", a, 0, atom), out)
              /\ stored' = IF out.ret = Unit
                           THEN [stored EXCEPT ![a] = Some(atom)] ELSE stored
              /\ removed' = IF out.ret = Unit THEN removed \ {a} ELSE removed

RemoveAtom ==
    \E a \in Serials :
        /\ Call(Op("remove_atom", a, 0, Unit), remove_atom(mol, a))
        /\ stored' = [stored EXCEPT ![a] = None]
        /\ removed' = IF stored[a] # None THEN removed \cup {a} ELSE removed

\* A bond joins two atoms: the two serials differ when both are present.
AddBond ==
    \E a \in Serials, b \in Serials, bond \in Bond :
        /\ a = b => ~Present(mol, a)
        /\ Call(Op("add_bond", a, b, bond), add_bond(mol, a, b, bond))
        /\ UNCHANGED <<stored, removed>>

RemoveBond ==
    \E a \in Serials, b \in Serials :
        /\ a = b => ~Present(mol, a)
        /\ Call(Op("remove_bond", a, b, Unit), remove_bond(mol, a, b))
        /\ UNCHANGED <<stored, removed>>

Clear ==
    /\ Call(Op("clear", 0, 0, Unit), clear(mol))
    /\ stored' = NothingStored
    /\ removed' = removed \cup {sn \in Serials : stored[sn] # None}

SetPosition ==
    \E sn \in Serials, p \in Positions :
        /\ Call(Op("set_position", sn, 0, p), set_position(mol, sn, p))
        /\ stored' = IF set_position(mol, sn, p).ret = Unit /\ stored[sn] # None
                     THEN [stored EXCEPT ![sn] = Some(AtomSetPosition(stored[sn][2], p))]
                     ELSE stored
        /\ UNCHANGED removed

SetSymbol ==
    \E sn \in Serials, sym \in Symbols :
        /\ Call(Op("set_symbol", sn, 0, sym), set_symbol(mol, sn, sym))
        /\ stored' = IF set_symbol(mol, sn, sym).ret = Unit /\ stored[sn] # None
                     THEN [stored EXCEPT ![sn] = Some(AtomSetSymbol(stored[sn][2], sym))]
                     ELSE stored
        /\ UNCHANGED removed

Next ==
    \/ AddAtom
    \/ RemoveAtom
    \/ AddBond
    \/ RemoveBond
    \/ Clear
    \/ SetPosition
    \/ SetSymbol

Spec == Init /\ [][Next]_vars

\* ------------------------------------------------- specification of title
MaxNameLen == 3

Names == UNION {[1..k -> Chars] : k \in 0..MaxNameLen}

\* The variables of the graph and of the identity map, in the specifications
\* that are not about them: an empty molecule, nothing stored or observed.
MoleculeUnused ==
    /\ mol = new
    /\ stored = NothingStored
    /\ removed = {}
    /\ prev = DefaultMolecule
    /\ ret = Unit
    /\ pc = Idle

\* Molecule::new(name) with any name.
InitTitle ==
    /\ \E nm \in Names :
          /\ name = nm
          /\ lastOp = Op("new", 0, 0, nm)
    /\ MoleculeUnused
    /\ symbols = <<>>
    /\ formula = None

SetTitle ==
    \E t \in Names :
        /\ name' = set_title(name, t)
        /\ lastOp' = Op("set_title", 0, 0, t)
        /\ UNCHANGED <<mol, stored, removed, prev, ret, symbols, formula, pc>>

NextTitle == SetTitle

SpecTitle == InitTitle /\ [][NextTitle]_vars

\* ----------------------------------- specification of the formula reducer
MaxSymbols == 4

FormulaSymbols == {"C", "H", "O", "N"}

SymbolSeqs == UNION {[1..k -> FormulaSymbols] : k \in 0..MaxSymbols}

\* Any symbol sequence is given to the reducer.
InitFormula ==
    /\ symbols \in SymbolSeqs
    /\ formula = None
    /\ lastOp = NoOp
    /\ name = <<>>
    /\ MoleculeUnused

\* The formula of the sequence, the map yielding its keys in some order.
Formula ==
    /\ formula = None
    /\ \E order \in KeyOrders(get_reduced_symbols(symbols)) :
          /\ formula' = Some(get_reduced_formula(symbols, order))
          /\ lastOp' = Op("formula", 0, 0, order)
          /\ UNCHANGED <<mol, stored, removed, prev, ret, name, symbols, pc>>

NextFormula == Formula

SpecFormula == InitFormula /\ [][NextFormula]_vars

\* ------------------------------------- specification of the bulk setters
\* Atoms with two positions and a frozen flag: four atoms, among which each
\* field takes both its values.
BulkPositions == {0, 1}

BulkAtoms ==
    {[symbol |-> "C", position |-> 0, freezing |-> FALSE],
     [symbol |-> "H", position |-> 1, freezing |-> FALSE],
     [symbol |-> "C", position |-> 1, freezing |-> TRUE],
     [symbol |-> "H", position |-> 0, freezing |-> TRUE]}

\* The value sequences given: shorter than, as long as and, for all but the
\* largest molecule, longer than the number of atoms.
ValueSeqs(V) == UNION {[1..k -> V] : k \in 0..MaxSerial}

InitBulk ==
    /\ mol = new
    /\ stored = NothingStored
    /\ removed = {}
    /\ prev = DefaultMolecule
    /\ lastOp = NoOp
    /\ ret = Unit
    /\ TitleAndFormulaUnused
    /\ pc = Idle

\* A call that builds the molecule up; it is not the observed call.
Build(out) ==
    /\ ~Observed
    /\ out.ret # Panic
    /\ mol' = out.mol
    /\ UNCHANGED <<stored, removed, prev, lastOp, ret, name, symbols, formula, pc>>

\* The observed call.  The molecules that bulk setters leave are also built
\* by add_atom, which puts any value under any serial.
Observe(op, out) ==
    /\ ~Observed
    /\ mol' = out.mol
    /\ prev' = mol
    /\ lastOp' = op
    /\ ret' = out.ret
    /\ UNCHANGED <<stored, removed, name, symbols, formula, pc>>

BulkAddAtom ==
    \E a \in Serials, atom \in BulkAtoms, n \in Handles :
        /\ ~Observed
        /\ IF Present(mol, a)
           THEN n = 0
           ELSE n \notin NodeIndices(mol.graph)
        /\ Build(add_atom(mol, a, atom, n))

\* The bonds built are single bonds: the setters do not read them.
BulkAddBond ==
    \E a \in Serials, b \in Serials :
        /\ ~Observed
        /\ a # b
        /\ Build(add_bond(mol, a, b, "single"))

SetPositions ==
    /\ ~Observed
    /\ \E ps \in ValueSeqs(BulkPositions) :
          Observe(Op("set_positions", 0, 0, ps), set_positions(mol, ps))

UpdatePositions ==
    /\ ~Observed
    /\ \E ps \in ValueSeqs(BulkPositions) :
          Observe(Op("update_positions", 0, 0, ps), update_positions(mol, ps))

SetSymbols ==
    /\ ~Observed
    /\ \E syms \in ValueSeqs(Symbols) :
          Observe(Op("set_symbols", 0, 0, syms), set_symbols(mol, syms))

NextBulk ==
    \/ BulkAddAtom
    \/ BulkAddBond
    \/ SetPositions
    \/ UpdatePositions
    \/ SetSymbols

SpecBulk == InitBulk /\ [][NextBulk]_vars

\* ------------------------------------ specification of the _from setters
MaxEntries == 2

EntrySeqs(E) == UNION {[1..k -> E] : k \in 0..MaxEntries}

\* The serials the entries may name: those the molecule may hold, and one
\* that it never holds.
EntrySerials == 1..(MaxSerial + 1)

\* Atom::default()
DefaultAtom == [symbol |-> "C", position |-> 0]

\* A molecule from default atoms; its other atoms and its bonds are those
\* that the entries add.
InitFrom ==
    /\ \E as \in AtomSeqs :
          /\ Len(as) <= NumHandles
          /\ \A i \in 1..Len(as) : as[i] = DefaultAtom
          /\ mol \in from_atoms(as)
    /\ stored = NothingStored
    /\ removed = {}
    /\ prev = DefaultMolecule
    /\ lastOp = NoOp
    /\ ret = Unit
    /\ TitleAndFormulaUnused
    /\ pc = Idle

AddAtomsFrom ==
    /\ ~Observed
    /\ \E pairs \in EntrySeqs(Serials \X Atom) :
          \E out \in add_atoms_from(mol, pairs) :
              Observe(Op("add_atoms_from", 0, 0, pairs), out)

\* A bond joins two atoms: the two serials of an entry differ.
AddBondsFrom ==
    /\ ~Observed
    /\ \E triples \in EntrySeqs({t \in EntrySerials \X EntrySerials \X Bond :
                                    t[1] # t[2]}) :
          Observe(Op("add_bonds_from", 0, 0, triples),
                  add_bonds_from(mol, triples))

SetPositionsFrom ==
    /\ ~Observed
    /\ \E pairs \in EntrySeqs(EntrySerials \X BulkPositions) :
          Observe(Op("set_positions_from", 0, 0, pairs),
                  set_positions_from(mol, pairs))

NextFrom ==
    \/ AddAtomsFrom
    \/ AddBondsFrom
    \/ SetPositionsFrom

SpecFrom == InitFrom /\ [][NextFrom]_vars

\* ---------------------------------- specification of the single statements
\* The calls are made one statement at a time.  While a call is in progress
\* prev is the molecule it began with and lastOp is the call; pc is the
\* statement to come.  When no call is in progress they say nothing.
At(label, n) == [at |-> label, n |-> n]

InitSteps ==
    /\ mol = new
    /\ stored = NothingStored
    /\ removed = {}
    /\ prev = DefaultMolecule
    /\ lastOp = NoOp
    /\ ret = Unit
    /\ TitleAndFormulaUnused
    /\ pc = Idle

\* A call begins: its first statement is done and at is the next one.
Begin(op, out, at) ==
    /\ mol' = out.mol
    /\ prev' = mol
    /\ lastOp' = op
    /\ pc' = at
    /\ UNCHANGED <<stored, removed, ret, name, symbols, formula>>

\* A call is over after this statement, or the program is, after a panic.
End(out) ==
    /\ mol' = out.mol
    /\ prev' = DefaultMolecule
    /\ lastOp' = NoOp
    /\ pc' = IF out.ret = Panic THEN At("panicked", 0) ELSE Idle
    /\ UNCHANGED <<stored, removed, ret, name, symbols, formula>>

\* add_atom, up to its first change: the replacement for a present serial,
\* the new node for an absent one.
AddAtomFirst ==
    /\ pc = Idle
    /\ \E a \in Serials, atom \in Atom :
          LET idx == get_by_left(mol.mapping, a) IN
          IF idx # None
          THEN End(add_atom_replace(mol, idx[2], atom))
          ELSE \E n \in Handles \ NodeIndices(mol.graph) :
                   Begin(Op("add_atom", a, 0, atom), add_atom_node(mol, atom, n),
                         At("add_atom_insert", n))

AddAtomInsert ==
    /\ pc.at = "add_atom_insert"
    /\ End(add_atom_insert(mol, lastOp.a, pc.n))

RemoveAtomSn ==
    /\ pc = Idle
    /\ \E a \in Serials :
          LET out == remove_atom_sn(mol, a) IN
          IF out.ret = None
          THEN End(out)
          ELSE Begin(Op("remove_atom", a, 0, Unit), out,
                     At("remove_atom_node", out.ret[2]))

RemoveAtomNode ==
    /\ pc.at = "remove_atom_node"
    /\ End(remove_atom_node(mol, pc.n))

ClearMapping ==
    /\ pc = Idle
    /\ Begin(Op("clear", 0, 0, Unit), clear_mapping(mol), At("clear_graph", 0))

ClearGraph ==
    /\ pc.at = "clear_graph"
    /\ End(clear_graph(mol))

\* add_bond and remove_bond change the graph in one statement.
StepAddBond ==
    /\ pc = Idle
    /\ \E a \in Serials, b \in Serials, bond \in Bond :
          /\ a # b
          /\ End(add_bond(mol, a, b, bond))

StepRemoveBond ==
    /\ pc = Idle
    /\ \E a \in Serials, b \in Serials :
          /\ a # b
          /\ End(remove_bond(mol, a, b))

NextSteps ==
    \/ AddAtomFirst
    \/ AddAtomInsert
    \/ RemoveAtomSn
    \/ RemoveAtomNode
    \/ ClearMapping
    \/ ClearGraph
    \/ StepAddBond
    \/ StepRemoveBond

SpecSteps == InitSteps /\ [][NextSteps]_vars

\* ------------------------------------- specification of one call's frame
\* One call of add_atom or remove_atom on a molecule of up to three atoms:
\* the served serial, a second atom and a third, with bonds among them.  The
\* molecule is given by from_graph, which yields every serial <-> handle
\* assignment of every graph.  Neighbouring handles hold different atoms,
\* so that a value which moved from one node to another is seen.
MaxFrameBonds == 2

FrameSerials == 1..(MaxSerial + 1)

FrameHandles == 0..NumHandles

FrameAtom(h) == [symbol |-> IF h % 2 = 0 THEN "C" ELSE "H", position |-> 0]

FrameGraphs ==
    UNION {
        {[nodes |-> [h \in N |-> FrameAtom(h)], edges |-> e, free |-> {}] :
            e \in UNION {[E -> Bond] :
                         E \in {B \in SUBSET {e \in SUBSET N : Cardinality(e) = 2} :
                                    Cardinality(B) <= MaxFrameBonds}}} :
        N \in SUBSET FrameHandles}

InitFrame ==
    /\ \E g \in FrameGraphs :
          \E nodes \in NodeOrders(g) : mol = from_graph(g, nodes)
    /\ stored = NothingStored
    /\ removed = {}
    /\ prev = DefaultMolecule
    /\ lastOp = NoOp
    /\ ret = Unit
    /\ TitleAndFormulaUnused
    /\ pc = Idle

FrameAddAtom ==
    /\ ~Observed
    /\ \E a \in FrameSerials, atom \in Atom, n \in FrameHandles :
          /\ IF Present(mol, a)
             THEN n = 0
             ELSE n \notin NodeIndices(mol.graph)
          /\ Observe(Op("add_atom", a, 0, atom), add_atom(mol, a, atom, n))

FrameRemoveAtom ==
    /\ ~Observed
    /\ \E a \in FrameSerials :
          Observe(Op("remove_atom", a, 0, Unit), remove_atom(mol, a))

NextFrame ==
    \/ FrameAddAtom
    \/ FrameRemoveAtom

SpecFrame == InitFrame /\ [][NextFrame]_vars

\* ----------------------------------------------------------------- claims
HandleOf(m, sn) == get_node_index(m, sn)[2]

\* C1: after every operation the identity map is a bijection between the
\* present serial numbers and the live node handles: no serial maps to two
\* handles, no handle is the target of two serials, every live node has a
\* serial, and serial_numbers() yields as many serials as natoms().
C1_Bijection ==
    /\ \A p \in mol.mapping : \A q \in mol.mapping :
          (p[1] = q[1] \/ p[2] = q[2]) => p = q
    /\ right_values(mol.mapping) = NodeIndices(mol.graph)
    /\ \A n \in NodeIndices(mol.graph) : atom_sn(mol, n) # Panic
    /\ Len(serial_numbers(mol)) = natoms(mol)

\* An atom was removed from a molecule and another atom is still there.
C1_Witness ==
    /\ Observed
    /\ lastOp.op = "remove_atom"
    /\ Present(prev, lastOp.a)
    /\ natoms(mol) >= 1

\* C2: whatever handles the store reuses, get_atom(s) returns the value most
\* recently stored under s for every present serial s, and None for every
\* serial that was never added or was removed and not added again.
C2_NoAlias ==
    /\ \A sn \in Serials : get_atom(mol, sn) = stored[sn]
    /\ \A sn \in removed : get_atom(mol, sn) = None

\* An absent serial was added in the handle of a removed node, while another
\* serial, removed before, stays absent.
C2_Witness ==
    /\ Observed
    /\ lastOp.op = "add_atom"
    /\ ~Present(prev, lastOp.a)
    /\ HandleOf(mol, lastOp.a) \in prev.graph.free
    /\ removed # {}

\* The bond between two present serials, whichever endpoint comes first.
Bonded(m, a, b) ==
    /\ Present(m, a)
    /\ Present(m, b)
    /\ graph_has_edge(m.graph, HandleOf(m, a), HandleOf(m, b))

BondOf(m, a, b) == m.graph.edges[{HandleOf(m, a), HandleOf(m, b)}]

\* C3: for two serials, get_bond and get_bond_mut return None, and never
\* fail, when either serial is absent and also when both are present with no
\* bond between them; they return the bond only when there is one.
C3_GetBondAbsentSignal ==
    \A a \in Serials : \A b \in Serials \ {a} :
        /\ get_bond(mol, a, b) # Panic
        /\ get_bond_mut(mol, a, b) # Panic
        /\ Bonded(mol, a, b) =>
              /\ get_bond(mol, a, b) = Some(BondOf(mol, a, b))
              /\ get_bond_mut(mol, a, b) = Some(BondOf(mol, a, b))
        /\ ~Bonded(mol, a, b) =>
              /\ get_bond(mol, a, b) = None
              /\ get_bond_mut(mol, a, b) = None

\* C4: add_bond and remove_bond with an absent endpoint, and set_position
\* and set_symbol on an absent serial, end in a panic and leave the
\* molecule as it was.
C4_FatalOnAbsent ==
    /\ (/\ Observed
        /\ lastOp.op \in {"add_bond", "remove_bond"}
        /\ ~Present(prev, lastOp.a) \/ ~Present(prev, lastOp.b))
       => (ret = Panic /\ mol = prev)
    /\ (/\ Observed
        /\ lastOp.op \in {"set_position", "set_symbol"}
        /\ ~Present(prev, lastOp.a))
       => (ret = Panic /\ mol = prev)

\* add_bond was called with its first serial present and its second absent.
C4_Witness ==
    /\ Observed
    /\ lastOp.op = "add_bond"
    /\ Present(prev, lastOp.a)
    /\ ~Present(prev, lastOp.b)
    /\ ret = Panic

\* C5: add_atom(s, Y) on a present serial s replaces the atom value in
\* place: get_atom(s) yields Y, natoms() and nbonds() are unchanged, the
\* handle of s and the whole identity map are unchanged, and the bonds,
\* those of s included, are kept.
C5_ReplaceInPlace ==
    (/\ Observed
     /\ lastOp.op = "add_atom"
     /\ Present(prev, lastOp.a))
    => /\ ret = Unit
       /\ get_atom(mol, lastOp.a) = Some(lastOp.val)
       /\ natoms(mol) = natoms(prev)
       /\ nbonds(mol) = nbonds(prev)
       /\ get_node_index(mol, lastOp.a) = get_node_index(prev, lastOp.a)
       /\ mol.mapping = prev.mapping
       /\ mol.graph.edges = prev.graph.edges
       /\ \A sn \in Serials \ {lastOp.a} : get_atom(mol, sn) = get_atom(prev, sn)

\* A bonded atom was given another value under its serial.
C5_Witness ==
    /\ Observed
    /\ lastOp.op = "add_atom"
    /\ Present(prev, lastOp.a)
    /\ get_atom(prev, lastOp.a) # Some(lastOp.val)
    /\ \E b \in Serials : Bonded(prev, lastOp.a, b)

\* C6: there is at most one bond per unordered pair of atoms; add_bond(a, b,
\* v) on a pair already bonded, in either endpoint order, replaces the
\* bond's value and leaves nbonds() unchanged, and on a pair not yet bonded
\* it raises nbonds() by exactly one.
C6_OneBondPerPair ==
    /\ \A e \in DOMAIN mol.graph.edges :
          Cardinality(e) = 2 /\ e \subseteq NodeIndices(mol.graph)
    /\ nbonds(mol) =
          Cardinality({p \in SUBSET Serials :
                          \E a \in p : \E b \in p \ {a} :
                              p = {a, b} /\ Bonded(mol, a, b)})
    /\ (/\ Observed
        /\ lastOp.op = "add_bond"
        /\ Present(prev, lastOp.a)
        /\ Present(prev, lastOp.b))
       => /\ ret = Unit
          /\ get_bond(mol, lastOp.a, lastOp.b) = Some(lastOp.val)
          /\ get_bond(mol, lastOp.b, lastOp.a) = Some(lastOp.val)
          /\ nbonds(mol) = nbonds(prev)
                + (IF Bonded(prev, lastOp.a, lastOp.b) THEN 0 ELSE 1)
          /\ \A e \in DOMAIN prev.graph.edges :
                e # {HandleOf(prev, lastOp.a), HandleOf(prev, lastOp.b)}
                => /\ e \in DOMAIN mol.graph.edges
                   /\ mol.graph.edges[e] = prev.graph.edges[e]

\* A bond was replaced by one of another kind, its endpoints given with the
\* larger serial first.
C6_Witness ==
    /\ Observed
    /\ lastOp.op = "add_bond"
    /\ lastOp.a > lastOp.b
    /\ Bonded(prev, lastOp.b, lastOp.a)
    /\ BondOf(prev, lastOp.b, lastOp.a) # lastOp.val
    /\ nbonds(mol) = nbonds(prev)

\* The edges of m that touch the node of the present serial sn.
IncidentEdges(m, sn) == {e \in DOMAIN m.graph.edges : HandleOf(m, sn) \in e}

\* C7: remove_atom(s) on a present serial returns the atom stored under s,
\* lowers natoms() by one, makes s absent and removes exactly the bonds
\* incident to s; on an absent serial it returns None and changes nothing.
C7_RemoveAtom ==
    /\ (/\ Observed
        /\ lastOp.op = "remove_atom"
        /\ Present(prev, lastOp.a))
       => /\ ret = get_atom(prev, lastOp.a)
          /\ ret # None
          /\ ret # Panic
          /\ natoms(mol) = natoms(prev) - 1
          /\ ~Present(mol, lastOp.a)
          /\ get_atom(mol, lastOp.a) = None
          /\ HandleOf(prev, lastOp.a) \notin NodeIndices(mol.graph)
          /\ mol.graph.edges =
                Restrict(prev.graph.edges,
                         DOMAIN prev.graph.edges \ IncidentEdges(prev, lastOp.a))
          /\ nbonds(mol) =
                nbonds(prev) - Cardinality(IncidentEdges(prev, lastOp.a))
    /\ (/\ Observed
        /\ lastOp.op = "remove_atom"
        /\ ~Present(prev, lastOp.a))
       => (ret = None /\ mol = prev)

\* A bonded atom was removed, and its bond with it.
C7_Witness ==
    /\ Observed
    /\ lastOp.op = "remove_atom"
    /\ Present(prev, lastOp.a)
    /\ IncidentEdges(prev, lastOp.a) # {}
    /\ nbonds(mol) < nbonds(prev)

\* C8: add_atom never fails, for a present or an absent serial, also when
\* the store mints the handle of a removed node: the no-overwrite insertion
\* into the identity map succeeds.
C8_AddAtomSucceeds ==
    (Observed /\ lastOp.op = "add_atom") =>
        /\ ret = Unit
        /\ Present(mol, lastOp.a)
        /\ get_atom(mol, lastOp.a) = Some(lastOp.val)

\* An absent serial was added in the handle of a removed node while another
\* atom was present.
C8_Witness ==
    /\ Observed
    /\ lastOp.op = "add_atom"
    /\ ~Present(prev, lastOp.a)
    /\ natoms(prev) >= 1
    /\ HandleOf(mol, lastOp.a) \in prev.graph.free
    /\ ret = Unit

\* C9: clear() leaves natoms() = 0, nbonds() = 0 and serial_numbers() empty,
\* the identity map and the graph store both empty; clearing twice yields
\* the same state as clearing once.
C9_Clear ==
    /\ (Observed /\ lastOp.op = "clear") =>
          /\ ret = Unit
          /\ natoms(mol) = 0
          /\ nbonds(mol) = 0
          /\ serial_numbers(mol) = <<>>
          /\ mol.mapping = {}
          /\ NodeIndices(mol.graph) = {}
          /\ DOMAIN mol.graph.edges = {}
    /\ clear(clear(mol).mol) = clear(mol)

\* A molecule with two atoms and a bond was cleared.
C9_Witness ==
    /\ Observed
    /\ lastOp.op = "clear"
    /\ natoms(prev) >= 2
    /\ nbonds(prev) >= 1

\* C10: atoms() yields exactly one (serial, atom) pair per present serial,
\* in strictly ascending serial order, each with the value stored under that
\* serial, whatever the order of the additions, removals and re-additions.
C10_AtomsAscending ==
    LET r == atoms(mol) IN
    /\ r # Panic
    /\ Len(r[2]) = Cardinality(left_values(mol.mapping))
    /\ {r[2][i][1] : i \in 1..Len(r[2])} = {sn \in Serials : Present(mol, sn)}
    /\ \A i \in 1..(Len(r[2]) - 1) : r[2][i][1] < r[2][i + 1][1]
    /\ \A i \in 1..Len(r[2]) : Some(r[2][i][2]) = stored[r[2][i][1]]

\* A serial was added, in the handle of a removed node, below a serial
\* added before it, and the two atoms differ.
C10_Witness ==
    /\ Observed
    /\ lastOp.op = "add_atom"
    /\ ~Present(prev, lastOp.a)
    /\ \E sn \in Serials :
          /\ sn > lastOp.a
          /\ Present(prev, sn)
          /\ get_atom(mol, sn) # get_atom(mol, lastOp.a)
    /\ HandleOf(mol, lastOp.a) \in prev.graph.free
    /\ Len(atoms(mol)[2]) = 2

\* C11: remove_bond(a, b) with both serials present returns the bond and
\* lowers nbonds() by one when the pair is bonded, whichever endpoint is given
\* first, and returns None and leaves the molecule as it was when the pair is
\* not bonded; natoms(), the atoms and the identity map never change.
C11_RemoveBond ==
    (/\ Observed
     /\ lastOp.op = "remove_bond"
     /\ Present(prev, lastOp.a)
     /\ Present(prev, lastOp.b))
    => /\ natoms(mol) = natoms(prev)
       /\ mol.mapping = prev.mapping
       /\ mol.graph.nodes = prev.graph.nodes
       /\ Bonded(prev, lastOp.a, lastOp.b) =>
             /\ ret = Some(BondOf(prev, lastOp.a, lastOp.b))
             /\ nbonds(mol) = nbonds(prev) - 1
             /\ ~Bonded(mol, lastOp.a, lastOp.b)
             /\ ~Bonded(mol, lastOp.b, lastOp.a)
             /\ mol.graph.edges =
                   Restrict(prev.graph.edges,
                            DOMAIN prev.graph.edges \
                               {{HandleOf(prev, lastOp.a), HandleOf(prev, lastOp.b)}})
       /\ ~Bonded(prev, lastOp.a, lastOp.b) =>
             /\ ret = None
             /\ mol = prev

\* A bond was removed with its endpoints given with the larger serial first.
C11_Witness ==
    /\ Observed
    /\ lastOp.op = "remove_bond"
    /\ lastOp.a > lastOp.b
    /\ Bonded(prev, lastOp.b, lastOp.a)
    /\ ret = Some(BondOf(prev, lastOp.b, lastOp.a))
    /\ nbonds(mol) = nbonds(prev) - 1

\* The name has nothing but whitespace in it (the empty name included).
AllWhiteSpace(s) == \A i \in 1..Len(s) : s[i] \in WhiteSpace

\* The first line of s that is not empty once trimmed, trimmed.
FirstNonEmptyLine(s) ==
    LET ls == lines(s)
        i == CHOOSE k \in 1..Len(ls) :
                 trim(ls[k]) # <<>> /\ \A j \in 1..(k - 1) : trim(ls[j]) = <<>>
    IN trim(ls[i])

Occurrences(syms, k) == Cardinality({i \in 1..Len(syms) : syms[i] = k})

DistinctSymbols(syms) == {syms[i] : i \in 1..Len(syms)}

\* The fragment the formula is to have for symbol k: the symbol alone when
\* it occurs once, else the symbol followed by its count in decimal.
Fragment(syms, k) ==
    IF Occurrences(syms, k) = 1 THEN k ELSE k \o ToString(Occurrences(syms, k))

\* The sequences that hold each member of S once.
Arrangements(S) ==
    {o \in [1..Cardinality(S) -> S] : \A i, j \in DOMAIN o : o[i] = o[j] => i = j}

\* The fragments of the symbols of the sequence ks, one after another.
Fragments(syms, ks) == join([i \in 1..Len(ks) |-> Fragment(syms, ks[i])])

\* Every formula the sequence can get, over the orders of the map.
PossibleFormulas(syms) ==
    {get_reduced_formula(syms, o) : o \in KeyOrders(get_reduced_symbols(syms))}

EthyleneSymbols == <<"C", "H", "C", "H", "H", "H">>

GlyoxalSymbols == <<"C", "H", "C", "H", "H", "O", "H", "O">>

\* C13: the formula of a symbol sequence has the fragment of "C" first when
\* "C" occurs and the fragment of "H" last when "H" occurs, and the fragments
\* of the other symbols between them; C,H,C,H,H,H gives "C2H4" and
\* C,H,C,H,H,O,H,O gives "C2O2H4".
C13_CarbonFirstHydrogenLast ==
    /\ formula # None =>
          \E others \in Arrangements(DistinctSymbols(symbols) \ {"C", "H"}) :
              formula[2] =
                  (IF "C" \in DistinctSymbols(symbols)
                   THEN Fragment(symbols, "C") ELSE "")
                  \o Fragments(symbols, others)
                  \o (IF "H" \in DistinctSymbols(symbols)
                      THEN Fragment(symbols, "H") ELSE "")
    /\ PossibleFormulas(EthyleneSymbols) = {"C2H4"}
    /\ PossibleFormulas(GlyoxalSymbols) = {"C2O2H4"}

\* A formula of C, H and two other symbols, for which the map yielded "H"
\* first and "C" last.
C13_Witness ==
    /\ formula # None
    /\ lastOp.op = "formula"
    /\ {"C", "H"} \subseteq DistinctSymbols(symbols)
    /\ Cardinality(DistinctSymbols(symbols)) = 4
    /\ lastOp.val[1] = "H"
    /\ lastOp.val[4] = "C"

\* The sequence with its elements i and i + 1 exchanged.
Exchanged(syms, i) ==
    [j \in 1..Len(syms) |->
        IF j = i THEN syms[i + 1] ELSE IF j = i + 1 THEN syms[i] ELSE syms[j]]

\* C14: the formula is the fragments of the distinct symbols of the input,
\* one each, with nothing between them: the symbol alone when it occurs once,
\* the symbol and its decimal count when it occurs more often; the empty
\* input gives the empty string; and exchanging input symbols changes
\* nothing of the formulas the input can get.
C14_OneFragmentPerSymbol ==
    /\ formula # None =>
          /\ \E ks \in Arrangements(DistinctSymbols(symbols)) :
                formula[2] = Fragments(symbols, ks)
          /\ symbols = <<>> => formula[2] = ""
    /\ \A i \in 1..(Len(symbols) - 1) :
          PossibleFormulas(Exchanged(symbols, i)) = PossibleFormulas(symbols)
    /\ PossibleFormulas([i \in 1..12 |-> "H"]) = {"H12"}

\* A formula with a symbol that occurs once and another that occurs more
\* than once, neither of them "C" or "H".
C14_Witness ==
    /\ formula # None
    /\ \E k \in DistinctSymbols(symbols) \ {"C", "H"} :
          \E l \in DistinctSymbols(symbols) \ {"C", "H"} :
              /\ Occurrences(symbols, k) = 1
              /\ Occurrences(symbols, l) > 1
              /\ formula[2] \in {k \o l \o "2", l \o "2" \o k}

\* The present serial that has i - 1 present serials below it.
LowestSerial(m, i) ==
    CHOOSE sn \in left_values(m.mapping) :
        Cardinality({t \in left_values(m.mapping) : t < sn}) = i - 1

\* The atom that the setter of the call makes of atom, given value v.
SetterApplied(call, atom, v) ==
    IF call = "set_positions" THEN [atom EXCEPT !.position = v]
    ELSE IF call = "update_positions"
         THEN IF atom.freezing THEN atom ELSE [atom EXCEPT !.position = v]
         ELSE [atom EXCEPT !.symbol = v]

\* C15: set_positions, update_positions and set_symbols give the i-th value
\* to the atom of the i-th lowest serial: with k values and n atoms the
\* setter is applied to the min(k, n) atoms of the lowest serials, every
\* other atom is as it was, values beyond the n-th are ignored, the call
\* does not fail, and natoms(), nbonds(), the bonds and the identity map are
\* unchanged.
C15_PositionalBulkSetters ==
    (/\ Observed
     /\ lastOp.op \in {"set_positions", "update_positions", "set_symbols"})
    => /\ ret = Unit
       /\ natoms(mol) = natoms(prev)
       /\ nbonds(mol) = nbonds(prev)
       /\ mol.mapping = prev.mapping
       /\ mol.graph.edges = prev.graph.edges
       /\ \A i \in 1..natoms(prev) :
             LET sn == LowestSerial(prev, i) IN
             get_atom(mol, sn) =
                 IF i <= Len(lastOp.val)
                 THEN Some(SetterApplied(lastOp.op, get_atom(prev, sn)[2],
                                         lastOp.val[i]))
                 ELSE get_atom(prev, sn)

\* One position was given to a molecule of two atoms, the atom of the lower
\* serial in the higher handle: that atom got the position and the other,
\* which had another position, kept its own.
C15_Witness ==
    /\ Observed
    /\ lastOp.op = "set_positions"
    /\ Len(lastOp.val) = 1
    /\ natoms(prev) = 2
    /\ nbonds(prev) = 1
    /\ HandleOf(prev, LowestSerial(prev, 1)) > HandleOf(prev, LowestSerial(prev, 2))
    /\ get_atom(prev, LowestSerial(prev, 1))[2].position # lastOp.val[1]
    /\ get_atom(mol, LowestSerial(prev, 1))[2].position = lastOp.val[1]
    /\ get_atom(mol, LowestSerial(prev, 2))[2].position # lastOp.val[1]

\* The largest member of a non-empty set of numbers.
Largest(S) == CHOOSE x \in S : \A y \in S : y <= x

\* The first entry that names a serial absent from m (k serials per entry),
\* or the length of the entries plus one when there is none.
FirstFailing(m, entries, k) ==
    LET bad == {i \in 1..Len(entries) :
                   \E c \in 1..k : ~Present(m, entries[i][c])}
    IN IF bad = {} THEN Len(entries) + 1
       ELSE CHOOSE i \in bad : \A j \in bad : i <= j

\* C16: add_atoms_from, add_bonds_from and set_positions_from apply their
\* entries in input order without rollback.  When entry j is the first of
\* add_bonds_from or set_positions_from to name an absent serial, the call
\* fails, each bond or position is as the last of the entries 1..j-1 that
\* name it left it, and the entries after j have no effect; add_atoms_from
\* does not fail, and each serial holds the value of the last entry naming it.
C16_FromNoRollback ==
    /\ (Observed /\ lastOp.op = "set_positions_from") =>
          LET es == lastOp.val
              j == FirstFailing(prev, es, 1)
          IN /\ ret = (IF j <= Len(es) THEN Panic ELSE Unit)
             /\ mol.mapping = prev.mapping
             /\ mol.graph.edges = prev.graph.edges
             /\ \A sn \in left_values(prev.mapping) :
                   LET named == {i \in 1..(j - 1) : es[i][1] = sn} IN
                   get_atom(mol, sn) =
                       IF named = {} THEN get_atom(prev, sn)
                       ELSE Some([get_atom(prev, sn)[2] EXCEPT
                                     !.position = es[Largest(named)][2]])
    /\ (Observed /\ lastOp.op = "add_bonds_from") =>
          LET es == lastOp.val
              j == FirstFailing(prev, es, 2)
          IN /\ ret = (IF j <= Len(es) THEN Panic ELSE Unit)
             /\ mol.mapping = prev.mapping
             /\ mol.graph.nodes = prev.graph.nodes
             /\ \A a \in left_values(prev.mapping) :
                   \A b \in left_values(prev.mapping) \ {a} :
                       LET named == {i \in 1..(j - 1) : {es[i][1], es[i][2]} = {a, b}}
                       IN IF named = {}
                          THEN /\ Bonded(mol, a, b) = Bonded(prev, a, b)
                               /\ Bonded(prev, a, b) =>
                                     BondOf(mol, a, b) = BondOf(prev, a, b)
                          ELSE /\ Bonded(mol, a, b)
                               /\ BondOf(mol, a, b) = es[Largest(named)][3]
    /\ (Observed /\ lastOp.op = "add_atoms_from") =>
          LET es == lastOp.val IN
          /\ ret = Unit
          /\ mol.graph.edges = prev.graph.edges
          /\ prev.mapping \subseteq mol.mapping
          /\ \A sn \in Serials :
                LET named == {i \in 1..Len(es) : es[i][1] = sn} IN
                get_atom(mol, sn) =
                    IF named = {} THEN get_atom(prev, sn)
                    ELSE Some(es[Largest(named)][2])

\* add_bonds_from failed at its second entry, and the bond of its first
\* entry, which was not there before, is there.
C16_Witness ==
    /\ Observed
    /\ lastOp.op = "add_bonds_from"
    /\ Len(lastOp.val) = 2
    /\ FirstFailing(prev, lastOp.val, 2) = 2
    /\ ret = Panic
    /\ ~Bonded(prev, lastOp.val[1][1], lastOp.val[1][2])
    /\ Bonded(mol, lastOp.val[1][1], lastOp.val[1][2])
    /\ nbonds(mol) = nbonds(prev) + 1

\* C17: from_atoms over n atom values yields a molecule whose
\* serial_numbers() is 1, 2, .., n and whose get_atom(i) is the i-th value;
\* from_graph over a raw graph of n nodes yields a molecule of that graph
\* whose serial_numbers() is 1, 2, .., n, serial i being mapped to the i-th
\* node the store enumerates, each node to one serial.
C17_ConstructorSerials ==
    /\ lastOp.op = "from_atoms" =>
          /\ serial_numbers(mol) = [i \in 1..Len(lastOp.val) |-> i]
          /\ natoms(mol) = Len(lastOp.val)
          /\ nbonds(mol) = 0
          /\ \A i \in 1..Len(lastOp.val) : get_atom(mol, i) = Some(lastOp.val[i])
    /\ lastOp.op = "from_graph" =>
          /\ serial_numbers(mol) = [i \in 1..natoms(mol) |-> i]
          /\ Len(lastOp.val) = natoms(mol)
          /\ \A i \in 1..natoms(mol) :
                /\ get_node_index(mol, i) = Some(lastOp.val[i])
                /\ lastOp.val[i] \in NodeIndices(mol.graph)
                /\ get_atom(mol, i) = Some(mol.graph.nodes[lastOp.val[i]])
          /\ \A i \in 1..natoms(mol) : \A j \in 1..natoms(mol) :
                HandleOf(mol, i) = HandleOf(mol, j) => i = j

\* A molecule from a raw graph of two bonded nodes with different atoms,
\* which the store enumerated with the higher handle first.
C17_Witness ==
    /\ lastOp.op = "from_graph"
    /\ natoms(mol) = 2
    /\ nbonds(mol) = 1
    /\ lastOp.val[1] > lastOp.val[2]
    /\ get_atom(mol, 1) # get_atom(mol, 2)

\* C18: in every state, between the statements of a call included, the
\* handles of the identity map are live in the store.  remove_atom takes the
\* mapping entry out before the node, add_atom adds the node before the
\* mapping entry, clear empties the map before the graph; and the statement
\* to come completes the call.
C18_MapWithinLiveHandles ==
    /\ right_values(mol.mapping) \subseteq NodeIndices(mol.graph)
    /\ pc.at = "remove_atom_node" =>
          /\ ~Present(mol, lastOp.a)
          /\ pc.n \in NodeIndices(mol.graph)
          /\ mol.graph = prev.graph
          /\ remove_atom_node(mol, pc.n) = remove_atom(prev, lastOp.a)
    /\ pc.at = "add_atom_insert" =>
          /\ ~Present(mol, lastOp.a)
          /\ pc.n \in NodeIndices(mol.graph)
          /\ mol.mapping = prev.mapping
          /\ add_atom_insert(mol, lastOp.a, pc.n) =
                add_atom(prev, lastOp.a, lastOp.val, pc.n)
    /\ pc.at = "clear_graph" =>
          /\ mol.mapping = {}
          /\ mol.graph = prev.graph
          /\ clear_graph(mol) = clear(prev)

\* remove_atom has taken the mapping entry of a bonded atom out and has not
\* yet removed its node: two nodes and their bond are in the graph, one
\* entry is in the map.
C18_Witness ==
    /\ pc.at = "remove_atom_node"
    /\ natoms(mol) = 2
    /\ nbonds(mol) = 1
    /\ Cardinality(mol.mapping) = 1

\* The members of a sequence.
Members(q) == {q[i] : i \in 1..Len(q)}

\* C19: after any calls, both ends of every edge of the graph are handles of
\* the identity map, so bonds() does not fail and yields one triple per
\* bond, nbonds() in all, each with two different serials of
\* serial_numbers() and the bond between them.
C19_BondsWithinMap ==
    /\ \A e \in DOMAIN mol.graph.edges : e \subseteq right_values(mol.mapping)
    /\ LET r == bonds(mol) IN
       /\ r # Panic
       /\ Cardinality(DOMAIN r[2]) = nbonds(mol)
       /\ \A e \in DOMAIN r[2] :
             /\ r[2][e][1] \in Members(serial_numbers(mol))
             /\ r[2][e][2] \in Members(serial_numbers(mol))
             /\ r[2][e][1] # r[2][e][2]
             /\ Bonded(mol, r[2][e][1], r[2][e][2])
             /\ BondOf(mol, r[2][e][1], r[2][e][2]) = r[2][e][3]
       /\ \A a \in Serials : \A b \in Serials \ {a} :
             Bonded(mol, a, b) =>
                 \E e \in DOMAIN r[2] : {r[2][e][1], r[2][e][2]} = {a, b}

\* Two atoms, the lower serial in the higher handle, were bonded by the
\* observed call; bonds() yields that one bond.
C19_Witness ==
    /\ Observed
    /\ lastOp.op = "add_bond"
    /\ ret = Unit
    /\ nbonds(prev) = 0
    /\ nbonds(mol) = 1
    /\ HandleOf(mol, 1) > HandleOf(mol, 2)
    /\ bonds(mol) # Panic
    /\ \E e \in DOMAIN bonds(mol)[2] : bonds(mol)[2][e][3] = lastOp.val

\* The bonds bonds() yields, each as its two serials and its value.
BondsBetween(m) ==
    LET r == bonds(m)[2] IN {<<{r[e][1], r[e][2]}, r[e][3]>> : e \in DOMAIN r}

\* C20: remove_atom(s) and add_atom(s, v) touch serial s only: every other
\* present serial keeps its handle and the value get_atom returns for it,
\* and every bond between two serials other than s is still there with the
\* same value between the same two serials.
C20_OnlyTheServedSerial ==
    lastOp.op \in {"remove_atom", "add_atom"} =>
        /\ \A t \in FrameSerials \ {lastOp.a} :
              Present(prev, t) =>
                  /\ get_node_index(mol, t) = get_node_index(prev, t)
                  /\ get_atom(mol, t) = get_atom(prev, t)
        /\ bonds(prev) # Panic
        /\ bonds(mol) # Panic
        /\ LET after == BondsBetween(mol) IN
           \A b \in BondsBetween(prev) : lastOp.a \notin b[1] => b \in after

\* remove_atom took out an atom bonded to a second one, from a lower
\* handle than the two it leaves, which are bonded to each other: they keep
\* their handles, their values and their bond.
C20_Witness ==
    /\ lastOp.op = "remove_atom"
    /\ ret # None
    /\ natoms(prev) = 3
    /\ nbonds(prev) = 2
    /\ natoms(mol) = 2
    /\ nbonds(mol) = 1
    /\ \A t \in FrameSerials \ {lastOp.a} :
          HandleOf(prev, t) > HandleOf(prev, lastOp.a)
    /\ \E t \in FrameSerials \ {lastOp.a} :
          get_atom(mol, t) # ret

====
